---- MODULE Spec2Model ----
(***************************************************************************)
(* GenAssist intent-detection Lambda (src/lambda/intent-detection/index.py)*)
(* as a state machine.                                                     *)
(*                                                                         *)
(* A text is a sequence of one-character strings, so that lower(), the     *)
(* substring tests and the two regular expressions of extract_entities are *)
(* computed character by character as the Python code computes them.       *)
(* Values that are only carried (titles, messages, entity values) are TLA+ *)
(* strings; Str turns a character sequence into such a string.             *)
(*                                                                         *)
(* Two specifications share the operators:                                 *)
(*   Spec      the handler: concurrent invocations, each stepping from one *)
(*             blocking external call (Bedrock, DynamoDB) to the next;     *)
(*   SpecPure  the pure functions applied to inputs drawn from bounded     *)
(*             sets of texts, model responses and intents.                 *)
(* Timestamps (createdAt, updatedAt, timestamp), logging and the CORS      *)
(* headers are left out: no decision of the code reads them.               *)
(***************************************************************************)
EXTENDS Integers, Sequences, FiniteSets, TLC

VARIABLES
    pc,                     \* pc[i]: where invocation i of handler stands
    event,                  \* event[i]: the request invocation i received
    intent_result,          \* intent_result[i]: handler's local, line 48
    workflow_item,          \* workflow_item[i]: execute_workflow's local, line 218
    response,               \* response[i]: what handler returned
    calls,                  \* calls[i]: the external calls invocation i made, in
                            \* order: invoke_model, and each put_item with how it ended
    workflows_table,        \* DynamoDB table WORKFLOWS_TABLE: a set of items keyed by id
    workflow_history_table, \* DynamoDB table WORKFLOW_HISTORY_TABLE
    fn,                     \* SpecPure: the function that was applied ("none" before)
    arg,                    \* SpecPure: its input
    ret,                    \* SpecPure: its result
    t_pc,                   \* transcribe handler: where its invocation stands
    attempt,                \* its local `attempt`, line 82
    queries,                \* get_transcription_job calls it has made
    status,                 \* the status the last of them returned
    transcript_text,        \* its local, line 91
    audio_bucket,           \* the keys of the objects in AUDIO_BUCKET
    elapsed,                \* seconds the invocation has spent in time.sleep
    t_response              \* what it returned

vars == <<pc, event, intent_result, workflow_item, response, calls,
          workflows_table, workflow_history_table, fn, arg, ret,
          t_pc, attempt, queries, status, transcript_text, audio_bucket,
          elapsed, t_response>>

handlerVars == <<pc, event, intent_result, workflow_item, response, calls,
                 workflows_table, workflow_history_table>>

pureVars == <<fn, arg, ret>>

transcribeVars == <<t_pc, attempt, queries, status, transcript_text,
                    audio_bucket, elapsed, t_response>>

(***************************************************************************)
(* Bounds.                                                                 *)
(***************************************************************************)
\* Invocations of the handler, which may overlap.
MaxInvocations == 2
\* Words of a generated input text (SpecPure).
MaxWords == 2

(***************************************************************************)
(* Characters and Python's str operations.                                 *)
(***************************************************************************)
UpperChars == <<"A", "B", "C", "D", "E", "F", "G", "H", "I", "J", "K", "L", "M",
                "N", "O", "P", "Q", "R", "S", "T", "U", "V", "W", "X", "Y", "Z">>

LowerChars == <<"a", "b", "c", "d", "e", "f", "g", "h", "i", "j", "k", "l", "m",
                "n", "o", "p", "q", "r", "s", "t", "u", "v", "w", "x", "y", "z">>

\* [A-Z]
UpperSet == {UpperChars[k] : k \in 1..Len(UpperChars)}

\* [a-z]
LowerSet == {LowerChars[k] : k \in 1..Len(LowerChars)}

\* \d
Digits == {"0", "1", "2", "3", "4", "5", "6", "7", "8", "9"}

LowerOf(c) ==
    IF c \in UpperSet
    THEN LowerChars[CHOOSE k \in 1..Len(UpperChars) : UpperChars[k] = c]
    ELSE c

UpperOf(c) ==
    IF c \in LowerSet
    THEN UpperChars[CHOOSE k \in 1..Len(LowerChars) : LowerChars[k] = c]
    ELSE c

\* str.lower()
lower(s) == [k \in 1..Len(s) |-> LowerOf(s[k])]

\* str.title(): a letter that follows a non-letter (or starts the string) is
\* upper-cased, every other letter lower-cased.
title(s) ==
    [k \in 1..Len(s) |->
        IF k = 1 \/ s[k - 1] \notin UpperSet \cup LowerSet
        THEN UpperOf(s[k])
        ELSE LowerOf(s[k])]

\* The Python str a character sequence stands for.
RECURSIVE Str(_)
Str(s) == IF s = <<>> THEN "" ELSE Head(s) \o Str(Tail(s))

\* `word in s`: word occurs in s as a substring.
Contains(word, s) ==
    \E k \in 1..(Len(s) - Len(word) + 1) :
        SubSeq(s, k, k + Len(word) - 1) = word

\* any(word in s for word in words)
AnyIn(words, s) == \E k \in 1..Len(words) : Contains(words[k], s)

\* The elements of a sequence.
Range(s) == {s[k] : k \in 1..Len(s)}

\* The least number of a non-empty set of numbers.
Min(S) == CHOOSE m \in S : \A n \in S : m <= n

\* s[k], or "" past either end of s.
At(s, k) == IF k \in 1..Len(s) THEN s[k] ELSE ""

\* The length of the longest run of characters of the class chars that
\* starts at k: what a greedy [a-z]+ or \d+ takes from there.
RunLen(chars, s, k) ==
    LET stops == {j \in k..(Len(s) + 1) : At(s, j) \notin chars}
    IN  IF stops = {} THEN 0 ELSE Min(stops) - k

(***************************************************************************)
(* Python values and exceptions.                                           *)
(*                                                                         *)
(* A value whose type the code does not control (what json.loads returns,  *)
(* and the `entities` inside it) carries its type.  A dict is JObject(f),  *)
(* f a function from keys to values.  A confidence is kept in hundredths   *)
(* (0.8 is 80).  A call either returns a value or raises an exception.     *)
(***************************************************************************)
JObject(f) == [type |-> "object", fields |-> f]

JNumber(n) == [type |-> "number", value |-> n]

JNull == [type |-> "null"]

EmptyDict == [k \in {} |-> ""]

\* d[key] = value on a Python dict's mapping.
DictSet(d, key, value) ==
    [k \in DOMAIN d \cup {key} |-> IF k = key THEN value ELSE d[k]]

Return(v) == [ok |-> TRUE, value |-> v]

Raise(type, msg) == [ok |-> FALSE, exc |-> [type |-> type, msg |-> msg]]

\* type(v).__name__
PyTypeName(v) ==
    CASE v.type = "object" -> "dict"
      [] v.type = "number" -> "int"
      [] v.type = "null" -> "NoneType"

\* v[key] for a str key: KeyError on a dict without the key, TypeError on a
\* value that is no dict.
Subscript(v, key) ==
    IF v.type = "object"
    THEN IF key \in DOMAIN v.fields
         THEN Return(v.fields[key])
         ELSE Raise("KeyError", "'" \o key \o "'")
    ELSE Raise("TypeError",
               "'" \o PyTypeName(v) \o "' object is not subscriptable")

\* v.get(key, default): AttributeError on a value that is no dict.
DictGet(v, key, default) ==
    IF v.type = "object"
    THEN Return(IF key \in DOMAIN v.fields THEN v.fields[key] ELSE default)
    ELSE Raise("AttributeError",
               "'" \o PyTypeName(v) \o "' object has no attribute 'get'")

(***************************************************************************)
(* extract_entities                                                        *)
(***************************************************************************)
\* The length of the match of [A-Z][a-z]+ [A-Z][a-z]+ that starts at k, or
\* 0.  Both [a-z]+ are greedy, and neither can give a letter back: what
\* follows the first must be a space, what follows the second is free.
NameMatchLen(s, k) ==
    LET r1 == RunLen(LowerSet, s, k + 1)
        r2 == RunLen(LowerSet, s, k + r1 + 3)
    IN  IF /\ At(s, k) \in UpperSet
           /\ r1 >= 1
           /\ At(s, k + r1 + 1) = " "
           /\ At(s, k + r1 + 2) \in UpperSet
           /\ r2 >= 1
        THEN r1 + r2 + 3
        ELSE 0

\* matches[-1] for matches[0]: the last start of a match.
FirstNameLast(s) ==
    LET starts == {k \in 1..Len(s) : NameMatchLen(s, k) > 0}
        last == CHOOSE m \in starts : \A n \in starts : m >= n
    IN  IF starts = {} THEN <<>>
        ELSE <<SubSeq(s, last, last + NameMatchLen(s, last) - 1)>>

\* re.findall(name_pattern, text)[:1]: the leftmost match, <<>> when none.
FirstName(s) ==
    LET starts == {k \in 1..Len(s) : NameMatchLen(s, k) > 0}
    IN  IF starts = {} THEN <<>>
        ELSE <<SubSeq(s, Min(starts),
                      Min(starts) + NameMatchLen(s, Min(starts)) - 1)>>

\* Where the group of \$?(\d+(?:\.\d{2})?) starts for a match that starts at
\* k, or 0 when there is no match at k.
AmountGroupStart(s, k) ==
    IF At(s, k) = "$" /\ At(s, k + 1) \in Digits THEN k + 1
    ELSE IF At(s, k) \in Digits THEN k
    ELSE 0

\* The length of the group \d+(?:\.\d{2})? starting at g.
AmountGroupLen(s, g) ==
    LET d == RunLen(Digits, s, g)
    IN  IF /\ At(s, g + d) = "."
           /\ At(s, g + d + 1) \in Digits
           /\ At(s, g + d + 2) \in Digits
        THEN d + 3
        ELSE d

\* re.findall(amount_pattern, text)[:1]: the group of the leftmost match.
FirstAmount(s) ==
    LET starts == {k \in 1..Len(s) : AmountGroupStart(s, k) > 0}
        g == AmountGroupStart(s, Min(starts))
    IN  IF starts = {} THEN <<>>
        ELSE <<SubSeq(s, g, g + AmountGroupLen(s, g) - 1)>>

roles == << <<"d", "e", "v", "e", "l", "o", "p", "e", "r">>,
            <<"e", "n", "g", "i", "n", "e", "e", "r">>,
            <<"m", "a", "n", "a", "g", "e", "r">>,
            <<"a", "n", "a", "l", "y", "s", "t">>,
            <<"d", "e", "s", "i", "g", "n", "e", "r">>,
            <<"i", "n", "t", "e", "r", "n">> >>

\* The first role of the list that occurs in text.lower(), <<>> when none.
FirstRole(s) ==
    LET hits == {k \in 1..Len(roles) : Contains(roles[k], lower(s))}
    IN  IF hits = {} THEN <<>> ELSE <<roles[Min(hits)]>>

\* Every requested type has a heuristic: one without its own takes the
\* whole text.
MatchesEveryType(text, entity_type) ==
    CASE entity_type = "employee_name" -> FirstName(text)
      [] entity_type = "amount" -> FirstAmount(text)
      [] entity_type = "role" -> FirstRole(text)
      [] OTHER -> <<text>>

\* What the heuristic of entity_type finds in text: <<>>, or <<m>> for the
\* match m.  A type without a heuristic finds nothing.
Matches(text, entity_type) ==
    CASE entity_type = "employee_name" -> FirstName(text)
      [] entity_type = "amount" -> FirstAmount(text)
      [] entity_type = "role" -> FirstRole(text)
      [] OTHER -> <<>>

\* The value stored for the match m: matches[0], f"${matches[0]}", role.title().
EntityValue(entity_type, m) ==
    CASE entity_type = "amount" -> "$" \o Str(m)
      [] entity_type = "role" -> Str(title(m))
      [] OTHER -> Str(m)

\* One pass of the loop over entity_types.
ExtractOne(entities, text, entity_type) ==
    LET matches == Matches(text, entity_type)
    IN  IF matches # <<>>
        THEN DictSet(entities, entity_type, EntityValue(entity_type, matches[1]))
        ELSE entities

RECURSIVE ExtractLoop(_, _, _)
ExtractLoop(entities, text, entity_types) ==
    IF entity_types = <<>> THEN entities
    ELSE ExtractLoop(ExtractOne(entities, text, Head(entity_types)),
                     text, Tail(entity_types))

extract_entities(text, entity_types) ==
    JObject(ExtractLoop(EmptyDict, text, entity_types))

(***************************************************************************)
(* fallback_intent_detection                                               *)
(***************************************************************************)
OnboardingWords == << <<"o", "n", "b", "o", "a", "r", "d">>,
                      <<"h", "i", "r", "e">>,
                      <<"n", "e", "w", " ", "e", "m", "p", "l", "o", "y", "e", "e">>,
                      <<"j", "o", "i", "n">> >>

TicketWords == << <<"t", "i", "c", "k", "e", "t">>,
                  <<"i", "s", "s", "u", "e">>,
                  <<"p", "r", "o", "b", "l", "e", "m">>,
                  <<"b", "u", "g">>,
                  <<"e", "r", "r", "o", "r">> >>

ExpenseWords == << <<"e", "x", "p", "e", "n", "s", "e">>,
                   <<"r", "e", "i", "m", "b", "u", "r", "s", "e">>,
                   <<"r", "e", "c", "e", "i", "p", "t">>,
                   <<"p", "a", "y", "m", "e", "n", "t">> >>

MeetingWords == << <<"m", "e", "e", "t", "i", "n", "g">>,
                   <<"s", "c", "h", "e", "d", "u", "l", "e">>,
                   <<"c", "a", "l", "e", "n", "d", "a", "r">>,
                   <<"a", "p", "p", "o", "i", "n", "t", "m", "e", "n", "t">> >>

\* The if/elif chain of lines 140-167, one entry per branch, in its order.
FallbackBranches ==
    << [words |-> OnboardingWords, intent |-> "HR_Onboarding",
        entity_types |-> <<"employee_name", "role", "start_date">>,
        domain |-> "HR"],
       [words |-> TicketWords, intent |-> "IT_Ticket",
        entity_types |-> <<"issue_type", "priority", "description">>,
        domain |-> "IT"],
       [words |-> ExpenseWords, intent |-> "Finance_Expense",
        entity_types |-> <<"amount", "category", "description">>,
        domain |-> "Finance"],
       [words |-> MeetingWords, intent |-> "Meeting_Schedule",
        entity_types |-> <<"date", "time", "attendees", "subject">>,
        domain |-> "General"] >>

\* The branches whose condition holds of text_lower.
BranchesHit(text_lower) ==
    {k \in 1..Len(FallbackBranches) : AnyIn(FallbackBranches[k].words, text_lower)}

\* The if/elif chain tested in the reverse order: the last branch whose
\* condition holds.
BranchTakenLast(text_lower) ==
    IF BranchesHit(text_lower) = {} THEN 0
    ELSE CHOOSE m \in BranchesHit(text_lower) :
             \A n \in BranchesHit(text_lower) : m >= n

\* The branch taken: the first whose condition holds, 0 for the final return.
BranchTaken(text_lower) ==
    IF BranchesHit(text_lower) = {} THEN 0 ELSE Min(BranchesHit(text_lower))

fallback_intent_detection(text) ==
    LET b == BranchTaken(lower(text))
    IN  IF b = 0
        THEN JObject([intent |-> "General_Query",
                      entities |-> JObject(EmptyDict),
                      confidence |-> 50,
                      domain |-> "General"])
        ELSE JObject([intent |-> FallbackBranches[b].intent,
                      entities |-> extract_entities(text,
                                       FallbackBranches[b].entity_types),
                      confidence |-> 80,
                      domain |-> FallbackBranches[b].domain])

(***************************************************************************)
(* detect_intent_with_bedrock                                              *)
(*                                                                         *)
(* What bedrock_runtime.invoke_model did for one call is an input:         *)
(*   [kind |-> "raises"]        the call raised (network, quota, timeout); *)
(*   [kind |-> "bad_response"]  it returned a body that is not JSON or has *)
(*                              no results[0].outputText;                  *)
(*   [kind |-> "generated", doc |-> d]  it returned outputText d.          *)
(* A generated text d is kept by what json.loads makes of it: d.json       *)
(* tells whether it is a JSON document, d.value is the value it denotes.   *)
(***************************************************************************)
\* json.loads(generated_text)
json_loads(doc) ==
    IF doc.json
    THEN Return(doc.value)
    ELSE Raise("JSONDecodeError", "Expecting value: line 1 column 1 (char 0)")

\* Lines 110-118: the generated text, or the exception that leaves the try.
GeneratedText(bedrock) ==
    IF bedrock.kind = "generated" THEN Return(bedrock.doc)
    ELSE IF bedrock.kind = "bad_response" THEN Raise("KeyError", "'results'")
    ELSE Raise("ClientError", "An error occurred when calling the InvokeModel operation")

\* detect_intent_with_bedrock without its `except Exception`: a failed call
\* leaves the function as an exception.
DetectWithoutOuterExcept(text, bedrock) ==
    LET generated_text == GeneratedText(bedrock)
    IN  IF ~generated_text.ok THEN generated_text
        ELSE IF json_loads(generated_text.value).ok
        THEN Return(json_loads(generated_text.value).value)
        ELSE Return(fallback_intent_detection(text))

\* Both handlers (except json.JSONDecodeError, line 124, and except
\* Exception, line 129) return fallback_intent_detection(text).
detect_intent_with_bedrock(text, bedrock) ==
    LET generated_text == GeneratedText(bedrock)
    IN  IF generated_text.ok /\ json_loads(generated_text.value).ok
        THEN Return(json_loads(generated_text.value).value)
        ELSE Return(fallback_intent_detection(text))

(***************************************************************************)
(* get_workflow_title, get_workflow_description, get_workflow_steps        *)
(***************************************************************************)
get_workflow_title(intent, entities) ==
    IF intent = "HR_Onboarding"
    THEN LET name == DictGet(entities, "employee_name", "New Employee")
         IN  IF name.ok THEN Return("Employee Onboarding - " \o name.value)
             ELSE name
    ELSE IF intent = "IT_Ticket"
    THEN LET issue == DictGet(entities, "issue_type", "Technical Issue")
         IN  IF issue.ok THEN Return("IT Support Ticket - " \o issue.value)
             ELSE issue
    ELSE IF intent = "Finance_Expense"
    THEN LET description == DictGet(entities, "description", "Business Expense")
         IN  IF description.ok
             THEN Return("Expense Report - " \o description.value)
             ELSE description
    ELSE IF intent = "Meeting_Schedule"
    THEN LET subject == DictGet(entities, "subject", "Meeting")
         IN  IF subject.ok THEN Return("Schedule Meeting - " \o subject.value)
             ELSE subject
    ELSE Return("Workflow - " \o intent)

\* get_workflow_description with the expense arm reading the key the
\* expense title reads.
DescriptionFromTitleKey(intent, entities) ==
    IF intent = "HR_Onboarding"
    THEN LET role == DictGet(entities, "role", "new role")
         IN  IF role.ok
             THEN Return("Setting up accounts, scheduling orientation, and preparing workspace for "
                         \o role.value \o ".")
             ELSE role
    ELSE IF intent = "IT_Ticket"
    THEN LET description == DictGet(entities, "description", "technical issue")
         IN  IF description.ok
             THEN Return("Investigating and resolving " \o description.value \o ".")
             ELSE description
    ELSE IF intent = "Finance_Expense"
    THEN LET amount == DictGet(entities, "description", "business expense")
         IN  IF amount.ok
             THEN Return("Processing expense report for " \o amount.value \o ".")
             ELSE amount
    ELSE IF intent = "Meeting_Schedule"
    THEN Return("Scheduling meeting and sending calendar invites.")
    ELSE Return("Processing workflow request.")

get_workflow_description(intent, entities) ==
    IF intent = "HR_Onboarding"
    THEN LET role == DictGet(entities, "role", "new role")
         IN  IF role.ok
             THEN Return("Setting up accounts, scheduling orientation, and preparing workspace for "
                         \o role.value \o ".")
             ELSE role
    ELSE IF intent = "IT_Ticket"
    THEN LET description == DictGet(entities, "description", "technical issue")
         IN  IF description.ok
             THEN Return("Investigating and resolving " \o description.value \o ".")
             ELSE description
    ELSE IF intent = "Finance_Expense"
    THEN LET amount == DictGet(entities, "amount", "business expense")
         IN  IF amount.ok
             THEN Return("Processing expense report for " \o amount.value \o ".")
             ELSE amount
    ELSE IF intent = "Meeting_Schedule"
    THEN Return("Scheduling meeting and sending calendar invites.")
    ELSE Return("Processing workflow request.")

\* A step created already in progress.
InProgress(name) == [name |-> name, status |-> "in_progress"]

\* A step of a template: every one starts pending.
Pending(name) == [name |-> name, status |-> "pending"]

\* A template looked up by the intent's domain prefix instead of the intent.
StepsByPrefix(intent) ==
    IF intent \in {"HR_Onboarding", "HR_Offboarding"}
    THEN <<Pending("Create employee record"), Pending("Setup IT accounts"),
           Pending("Schedule orientation"), Pending("Prepare workspace"),
           Pending("Send welcome email")>>
    ELSE IF intent \in {"IT_Ticket", "IT_Password_Reset"}
    THEN <<Pending("Ticket creation"), Pending("Issue assessment"),
           Pending("Assign technician"), Pending("Resolve issue")>>
    ELSE <<Pending("Process request"), Pending("Complete workflow")>>

get_workflow_steps(intent) ==
    IF intent = "HR_Onboarding"
    THEN <<Pending("Create employee record"), Pending("Setup IT accounts"),
           Pending("Schedule orientation"), Pending("Prepare workspace"),
           Pending("Send welcome email")>>
    ELSE IF intent = "IT_Ticket"
    THEN <<Pending("Ticket creation"), Pending("Issue assessment"),
           Pending("Assign technician"), Pending("Resolve issue")>>
    ELSE IF intent = "Finance_Expense"
    THEN <<Pending("Expense validation"), Pending("Manager approval"),
           Pending("Finance review"), Pending("Payment processing")>>
    ELSE IF intent = "Meeting_Schedule"
    THEN <<Pending("Check availability"), Pending("Book meeting room"),
           Pending("Send invitations"), Pending("Set up equipment")>>
    ELSE <<Pending("Process request"), Pending("Complete workflow")>>

(***************************************************************************)
(* execute_workflow, from one DynamoDB call to the next.                   *)
(***************************************************************************)
\* One identifier per invocation, used for the workflow and for its history
\* entry.
Uuid4PerInvocation(i, n) == i

\* Identifiers drawn from a generator that every invocation starts in the
\* same state: the n-th draw is the same in each.
Uuid4SameSeed(i, n) == n

\* str(uuid.uuid4()): the n-th identifier invocation i draws.  uuid4 values
\* are taken to be unique: no two draws give the same one.
Uuid4(i, n) == 2 * (i - 1) + n

\* execute_workflow refusing a classification whose confidence is under 0.7.
BuildWorkflowItemByConfidence(res, original_text, is_voice, workflow_id) ==
    LET intent == Subscript(res, "intent")
        entities == Subscript(res, "entities")
        domain == Subscript(res, "domain")
        confidence == Subscript(res, "confidence")
    IN  IF ~intent.ok THEN intent
        ELSE IF ~entities.ok THEN entities
        ELSE IF confidence.ok /\ confidence.value < 70
        THEN Raise("ValueError", "confidence too low")
        ELSE LET t == get_workflow_title(intent.value, entities.value)
                 d == get_workflow_description(intent.value, entities.value)
             IN  IF ~t.ok THEN t
                 ELSE IF ~d.ok THEN d
                 ELSE IF ~domain.ok THEN domain
                 ELSE Return([id |-> workflow_id,
                              title |-> t.value,
                              description |-> d.value,
                              domain |-> domain.value,
                              intent |-> intent.value,
                              entities |-> entities.value,
                              status |-> "in_progress",
                              userId |-> "default-user",
                              progress |-> 0,
                              steps |-> get_workflow_steps(intent.value),
                              originalText |-> Str(original_text),
                              isVoice |-> is_voice])

\* Lines 215-233: the workflow_item dict, its values evaluated in the order
\* they are written; the first exception ends the evaluation.
BuildWorkflowItem(res, original_text, is_voice, workflow_id) ==
    LET intent == Subscript(res, "intent")
        entities == Subscript(res, "entities")
        domain == Subscript(res, "domain")
    IN  IF ~intent.ok THEN intent
        ELSE IF ~entities.ok THEN entities
        ELSE LET t == get_workflow_title(intent.value, entities.value)
                 d == get_workflow_description(intent.value, entities.value)
             IN  IF ~t.ok THEN t
                 ELSE IF ~d.ok THEN d
                 ELSE IF ~domain.ok THEN domain
                 ELSE Return([id |-> workflow_id,
                              title |-> t.value,
                              description |-> d.value,
                              domain |-> domain.value,
                              intent |-> intent.value,
                              entities |-> entities.value,
                              status |-> "in_progress",
                              userId |-> "default-user",
                              progress |-> 0,
                              steps |-> get_workflow_steps(intent.value),
                              originalText |-> Str(original_text),
                              isVoice |-> is_voice])

\* The history entry pointing at itself instead of at the workflow.
BuildHistoryItemSelfReference(history_id, item) ==
    [id |-> history_id,
     workflowId |-> history_id,
     action |-> "workflow_started",
     status |-> "info",
     message |-> "Workflow initiated: " \o item.title]

\* Lines 239-246.
BuildHistoryItem(history_id, item) ==
    [id |-> history_id,
     workflowId |-> item.id,
     action |-> "workflow_started",
     status |-> "info",
     message |-> "Workflow initiated: " \o item.title]

\* Lines 249-252: what execute_workflow returns.
WorkflowResult(item) ==
    [workflowId |-> item.id,
     message |-> "Workflow " \o item.title
                 \o " has been initiated and is now in progress."]

\* A put that replaces the table's content: only the last item written stays.
PutItemLastWriter(table, item) == {item}

\* table.put_item(Item=item): an upsert keyed by id.
PutItem(table, item) == {r \in table : r.id # item.id} \cup {item}

(***************************************************************************)
(* handler's three outcomes.                                               *)
(***************************************************************************)
BadRequest ==
    [statusCode |-> 400,
     body |-> [success |-> FALSE, error |-> "Text input is required"]]

\* handler without its `except Exception`: the exception leaves the handler
\* and nothing is returned.
Uncaught(exc) == [statusCode |-> 0]

\* except Exception as e, line 64
InternalError(exc) ==
    [statusCode |-> 500,
     body |-> [success |-> FALSE,
               error |-> "Internal server error: " \o exc.msg]]

\* The `else None` arm of line 60 taken: no top-level workflow id (0).
SuccessWithoutId(res, workflow_result) ==
    [statusCode |-> 200,
     body |-> [success |-> TRUE,
               intent |-> res,
               message |-> workflow_result,
               workflowId |-> 0]]

Success(res, workflow_result) ==
    [statusCode |-> 200,
     body |-> [success |-> TRUE,
               intent |-> res,
               message |-> workflow_result,
               workflowId |-> workflow_result.workflowId]]

NoResponse == [statusCode |-> 0]

(***************************************************************************)
(* Inputs.                                                                 *)
(***************************************************************************)
W_hire == <<"h", "i", "r", "e">>

W_new == <<"n", "e", "w">>

W_employee == <<"e", "m", "p", "l", "o", "y", "e", "e">>

W_ticket == <<"t", "i", "c", "k", "e", "t">>

W_issue == <<"i", "s", "s", "u", "e">>

W_reimburse == <<"r", "e", "i", "m", "b", "u", "r", "s", "e">>

W_receipt == <<"r", "e", "c", "e", "i", "p", "t">>

W_meeting == <<"m", "e", "e", "t", "i", "n", "g">>

W_my == <<"m", "y">>

W_Pay == <<"P", "a", "y">>

W_John == <<"J", "o", "h", "n">>

W_Smith == <<"S", "m", "i", "t", "h">>

W_amount250 == <<"$", "2", "5", "0", ".", "0", "0">>

W_num40 == <<"4", "0">>

W_Engineer == <<"E", "n", "g", "i", "n", "e", "e", "r">>

W_intern == <<"i", "n", "t", "e", "r", "n">>

W_for == <<"f", "o", "r">>

W_travel == <<"t", "r", "a", "v", "e", "l">>

Vocabulary == {W_hire, W_new, W_employee, W_ticket, W_issue, W_reimburse,
               W_receipt, W_meeting, W_my, W_Pay, W_John, W_Smith,
               W_amount250, W_num40, W_Engineer, W_intern}

\* " ".join(ws)
RECURSIVE Join(_)
Join(ws) ==
    IF Len(ws) = 1 THEN ws[1] ELSE ws[1] \o <<" ">> \o Join(Tail(ws))

\* "reimburse my ticket issue"
TextReimburse == Join(<<W_reimburse, W_my, W_ticket, W_issue>>)

\* "Pay John Smith $250.00 for travel"
TextPay == Join(<<W_Pay, W_John, W_Smith, W_amount250, W_for, W_travel>>)

\* "hire John Smith"
TextHire == Join(<<W_hire, W_John, W_Smith>>)

\* The texts SpecPure draws from: every text of at most MaxWords words of
\* the vocabulary, and the three above.
TextsPure ==
    {Join(ws) : ws \in UNION {[1..n -> Vocabulary] : n \in 1..MaxWords}}
        \cup {TextReimburse, TextPay, TextHire}

\* The entity_types lists extract_entities is called with: the three of
\* fallback_intent_detection that name a type with a heuristic, and two more.
EntityTypeLists ==
    {<<"employee_name", "role", "start_date">>,
     <<"amount", "category", "description">>,
     <<"employee_name", "amount">>,
     <<"role">>}

\* Generated texts, by what json.loads makes of them.
NotJson == [json |-> FALSE]

Json(v) == [json |-> TRUE, value |-> v]

Classification(intent, entities, confidence, domain) ==
    JObject([intent |-> intent, entities |-> entities,
             confidence |-> confidence, domain |-> domain])

\* A complete object, and the same with another confidence.
DocTicket == Json(Classification("IT_Ticket",
                 JObject([issue_type |-> "VPN"]), 95, "IT"))

DocTicketLowConfidence == Json(Classification("IT_Ticket",
                 JObject([issue_type |-> "VPN"]), 60, "IT"))

\* An intent of the prompt's list that has no template.
DocOffboarding == Json(Classification("HR_Offboarding",
                 JObject(EmptyDict), 90, "HR"))

\* Objects that miss a key.
DocNoEntities == Json(JObject([intent |-> "IT_Ticket", confidence |-> 90,
                               domain |-> "IT"]))

DocNoDomain == Json(JObject([intent |-> "IT_Ticket",
                             entities |-> JObject(EmptyDict),
                             confidence |-> 90]))

DocNoIntent == Json(JObject([entities |-> JObject(EmptyDict),
                             confidence |-> 90, domain |-> "IT"]))

\* "entities": null
DocNullEntities == Json(Classification("IT_Ticket", JNull, 90, "IT"))

\* JSON documents that are no object: 42 and null.
DocNumber == Json(JNumber(42))

DocNull == Json(JNull)

BedrockRaises == [kind |-> "raises"]

BedrockBadResponse == [kind |-> "bad_response"]

Generated(doc) == [kind |-> "generated", doc |-> doc]

\* What invoke_model may do for a call of the handler.
BedrockOutcomes ==
    {BedrockRaises, BedrockBadResponse}
        \cup {Generated(d) : d \in {NotJson, DocTicket, DocTicketLowConfidence,
                                    DocOffboarding, DocNoEntities, DocNoDomain,
                                    DocNullEntities, DocNumber}}

\* What it may do for a call of SpecPure.
BedrockOutcomesPure ==
    BedrockOutcomes \cup {Generated(DocNoIntent), Generated(DocNull)}

\* The event handler receives: a body that json.loads rejects, or the dict
\* the body denotes.
EventMalformed == [parses |-> FALSE]

EventOf(body) == [parses |-> TRUE, body |-> body]

Events ==
    {EventMalformed, EventOf(EmptyDict), EventOf([text |-> <<>>]),
     EventOf([text |-> TextReimburse]),
     EventOf([text |-> TextHire, isVoice |-> TRUE])}

\* How a put_item call ends: "ok", or the message of the error it raises.
StoreFault == "An error occurred (ProvisionedThroughputExceededException) when calling the PutItem operation"

PutOutcomes == {"ok", StoreFault}

\* The intents and entities the templates are applied to in SpecPure.
IntentsPure ==
    {"HR_Onboarding", "HR_Offboarding", "IT_Ticket", "IT_Password_Reset",
     "Finance_Expense", "Finance_Approval", "Meeting_Schedule",
     "General_Query", "hr_onboarding", "Unknown", ""}

EntitiesPure ==
    {JObject(EmptyDict),
     JObject([employee_name |-> "Ada Lovelace", role |-> "Engineer"]),
     JObject([issue_type |-> "VPN", description |-> "a broken VPN"]),
     JObject([description |-> "Taxi", amount |-> "$12.50"]),
     JObject([subject |-> "Roadmap"]),
     JNull}

PureInputs ==
    {[kind |-> "text", text |-> t] : t \in TextsPure}
        \cup {[kind |-> "template", intent |-> i, entities |-> e] :
                  i \in IntentsPure, e \in EntitiesPure}

(***************************************************************************)
(* The handler.  An invocation steps from one blocking external call to    *)
(* the next; between two calls it runs alone.                              *)
(***************************************************************************)
Invocations == 1..MaxInvocations

\* body.get(key, default) on the parsed body.
BodyGet(body, key, default) ==
    IF key \in DOMAIN body THEN body[key] ELSE default

TextOf(ev) == BodyGet(ev.body, "text", <<>>)

\* The validation left out: every text passes.
NotTextNever(text) == FALSE

\* `not text`, line 37: the text is missing or empty.
NotText(text) == text = <<>>

\* A put_item call on a table, and how it ended.
PutCall(table, outcome) ==
    [op |-> "put_item", table |-> table, outcome |-> outcome]

IsVoiceOf(ev) == BodyGet(ev.body, "isVoice", FALSE)

\* The transcribe handler before its invocation: nothing uploaded, no
\* query made.
TranscribeIdle ==
    /\ t_pc = "idle"
    /\ attempt = 0
    /\ queries = 0
    /\ status = "none"
    /\ transcript_text = ""
    /\ audio_bucket = {}
    /\ elapsed = 0
    /\ t_response = NoResponse

Init ==
    /\ pc = [i \in Invocations |-> "idle"]
    /\ event = [i \in Invocations |-> EventMalformed]
    /\ intent_result = [i \in Invocations |-> JNull]
    /\ workflow_item = [i \in Invocations |-> JNull]
    /\ response = [i \in Invocations |-> NoResponse]
    /\ calls = [i \in Invocations |-> <<>>]
    /\ workflows_table = {}
    /\ workflow_history_table = {}
    /\ fn = "none"
    /\ arg = JNull
    /\ ret = JNull
    /\ TranscribeIdle

\* Lines 25-45: the body is parsed and the text validated.
Receive(i, ev) ==
    /\ pc[i] = "idle"
    /\ event' = [event EXCEPT ![i] = ev]
    /\ IF ~ev.parses
       THEN /\ response' = [response EXCEPT ![i] =
                   InternalError(json_loads(NotJson).exc)]
            /\ pc' = [pc EXCEPT ![i] = "done"]
       ELSE IF NotText(TextOf(ev))
       THEN /\ response' = [response EXCEPT ![i] = BadRequest]
            /\ pc' = [pc EXCEPT ![i] = "done"]
       ELSE /\ response' = response
            /\ pc' = [pc EXCEPT ![i] = "invoke_model"]
    /\ UNCHANGED <<intent_result, workflow_item, calls, workflows_table,
                   workflow_history_table, pureVars, transcribeVars>>

\* Lines 48-51 and 215-233: invoke_model ends, detect_intent_with_bedrock
\* returns, and execute_workflow builds the workflow item.
InvokeModel(i, bedrock) ==
    /\ pc[i] = "invoke_model"
    /\ calls' = [calls EXCEPT ![i] = Append(@, [op |-> "invoke_model"])]
    /\ \E res \in {detect_intent_with_bedrock(TextOf(event[i]), bedrock)} :
          IF ~res.ok
          THEN /\ response' = [response EXCEPT ![i] = InternalError(res.exc)]
               /\ pc' = [pc EXCEPT ![i] = "done"]
               /\ UNCHANGED <<intent_result, workflow_item>>
          ELSE /\ intent_result' = [intent_result EXCEPT ![i] = res.value]
               /\ \E item \in {BuildWorkflowItem(res.value, TextOf(event[i]),
                                   IsVoiceOf(event[i]), Uuid4(i, 1))} :
                     IF item.ok
                     THEN /\ workflow_item' = [workflow_item EXCEPT ![i] = item.value]
                          /\ pc' = [pc EXCEPT ![i] = "put_workflow"]
                          /\ response' = response
                     ELSE \* except Exception as e: raise e, then line 64
                          /\ response' = [response EXCEPT ![i] = InternalError(item.exc)]
                          /\ pc' = [pc EXCEPT ![i] = "done"]
                          /\ workflow_item' = workflow_item
    /\ UNCHANGED <<event, workflows_table, workflow_history_table, pureVars, transcribeVars>>

\* put_item on the workflows table retried after a failure: the invocation
\* stays before the call.
PutWorkflowRetry(i, outcome) ==
    /\ pc[i] = "put_workflow"
    /\ calls' = [calls EXCEPT ![i] = Append(@, PutCall("workflows", outcome))]
    /\ IF outcome = "ok"
       THEN /\ workflows_table' = PutItem(workflows_table, workflow_item[i])
            /\ pc' = [pc EXCEPT ![i] = "put_history"]
       ELSE /\ Len(calls[i]) < 3
            /\ UNCHANGED <<workflows_table, pc>>
    /\ UNCHANGED <<event, intent_result, workflow_item, response,
                   workflow_history_table, pureVars, transcribeVars>>

\* A failure of the put on the workflows table ignored: execute_workflow
\* goes on to the history entry.
PutWorkflowIgnoreFailure(i, outcome) ==
    /\ pc[i] = "put_workflow"
    /\ calls' = [calls EXCEPT ![i] = Append(@, PutCall("workflows", outcome))]
    /\ pc' = [pc EXCEPT ![i] = "put_history"]
    /\ workflows_table' = IF outcome = "ok"
                          THEN PutItem(workflows_table, workflow_item[i])
                          ELSE workflows_table
    /\ UNCHANGED <<event, intent_result, workflow_item, response,
                   workflow_history_table, pureVars, transcribeVars>>

\* Line 236: workflows_table.put_item ends.
PutWorkflow(i, outcome) ==
    /\ pc[i] = "put_workflow"
    /\ calls' = [calls EXCEPT ![i] = Append(@, PutCall("workflows", outcome))]
    /\ IF outcome = "ok"
       THEN /\ workflows_table' = PutItem(workflows_table, workflow_item[i])
            /\ pc' = [pc EXCEPT ![i] = "put_history"]
            /\ response' = response
       ELSE /\ response' = [response EXCEPT ![i] =
                   InternalError([type |-> "ClientError", msg |-> outcome])]
            /\ pc' = [pc EXCEPT ![i] = "done"]
            /\ workflows_table' = workflows_table
    /\ UNCHANGED <<event, intent_result, workflow_item, workflow_history_table,
                   pureVars, transcribeVars>>

\* A failed put on the history table compensated: the workflow written
\* before is taken out of the store again.
PutHistoryRollback(i, outcome) ==
    /\ pc[i] = "put_history"
    /\ calls' = [calls EXCEPT ![i] = Append(@, PutCall("history", outcome))]
    /\ pc' = [pc EXCEPT ![i] = "done"]
    /\ IF outcome = "ok"
       THEN /\ workflow_history_table' =
                   PutItem(workflow_history_table,
                           BuildHistoryItem(Uuid4(i, 2), workflow_item[i]))
            /\ response' = [response EXCEPT ![i] =
                   Success(intent_result[i], WorkflowResult(workflow_item[i]))]
            /\ workflows_table' = workflows_table
       ELSE /\ response' = [response EXCEPT ![i] =
                   InternalError([type |-> "ClientError", msg |-> outcome])]
            /\ workflow_history_table' = workflow_history_table
            /\ workflows_table' = workflows_table \ {workflow_item[i]}
    /\ UNCHANGED <<event, intent_result, workflow_item, pureVars, transcribeVars>>

\* The two puts issued without waiting for the first: the history put may
\* end while the put on the workflows table is still outstanding, and the
\* invocation returns on it.
PutHistoryEarly(i, outcome) ==
    /\ pc[i] \in {"put_workflow", "put_history"}
    /\ calls' = [calls EXCEPT ![i] = Append(@, PutCall("history", outcome))]
    /\ pc' = [pc EXCEPT ![i] = "done"]
    /\ IF outcome = "ok"
       THEN /\ workflow_history_table' =
                   PutItem(workflow_history_table,
                           BuildHistoryItem(Uuid4(i, 2), workflow_item[i]))
            /\ response' = [response EXCEPT ![i] =
                   Success(intent_result[i], WorkflowResult(workflow_item[i]))]
       ELSE /\ response' = [response EXCEPT ![i] =
                   InternalError([type |-> "ClientError", msg |-> outcome])]
            /\ workflow_history_table' = workflow_history_table
    /\ UNCHANGED <<event, intent_result, workflow_item, workflows_table,
                   pureVars, transcribeVars>>

\* Lines 239-252 and 53-62: workflow_history_table.put_item ends.
PutHistory(i, outcome) ==
    /\ pc[i] = "put_history"
    /\ calls' = [calls EXCEPT ![i] = Append(@, PutCall("history", outcome))]
    /\ pc' = [pc EXCEPT ![i] = "done"]
    /\ IF outcome = "ok"
       THEN /\ workflow_history_table' =
                   PutItem(workflow_history_table,
                           BuildHistoryItem(Uuid4(i, 2), workflow_item[i]))
            /\ response' = [response EXCEPT ![i] =
                   Success(intent_result[i], WorkflowResult(workflow_item[i]))]
       ELSE /\ response' = [response EXCEPT ![i] =
                   InternalError([type |-> "ClientError", msg |-> outcome])]
            /\ workflow_history_table' = workflow_history_table
    /\ UNCHANGED <<event, intent_result, workflow_item, workflows_table,
                   pureVars, transcribeVars>>

Next ==
    \/ \E i \in Invocations, ev \in Events : Receive(i, ev)
    \/ \E i \in Invocations, b \in BedrockOutcomes : InvokeModel(i, b)
    \/ \E i \in Invocations, o \in PutOutcomes : PutWorkflow(i, o)
    \/ \E i \in Invocations, o \in PutOutcomes : PutHistory(i, o)

Spec == Init /\ [][Next]_vars

(***************************************************************************)
(* The pure functions, each applied once to an input drawn at the start.   *)
(***************************************************************************)
InitPure ==
    /\ pc = [i \in Invocations |-> "idle"]
    /\ event = [i \in Invocations |-> EventMalformed]
    /\ intent_result = [i \in Invocations |-> JNull]
    /\ workflow_item = [i \in Invocations |-> JNull]
    /\ response = [i \in Invocations |-> NoResponse]
    /\ calls = [i \in Invocations |-> <<>>]
    /\ workflows_table = {}
    /\ workflow_history_table = {}
    /\ fn = "none"
    /\ arg \in PureInputs
    /\ ret = JNull
    /\ TranscribeIdle

ApplyFallback ==
    /\ fn = "none"
    /\ arg.kind = "text"
    /\ fn' = "fallback_intent_detection"
    /\ arg' = arg
    /\ ret' = fallback_intent_detection(arg.text)
    /\ UNCHANGED <<handlerVars, transcribeVars>>

ApplyExtract(entity_types) ==
    /\ fn = "none"
    /\ arg.kind = "text"
    /\ fn' = "extract_entities"
    /\ arg' = [kind |-> "text", text |-> arg.text, entity_types |-> entity_types]
    /\ ret' = extract_entities(arg.text, entity_types)
    /\ UNCHANGED <<handlerVars, transcribeVars>>

ApplyDetect(bedrock) ==
    /\ fn = "none"
    /\ arg.kind = "text"
    /\ fn' = "detect_intent_with_bedrock"
    /\ arg' = [kind |-> "text", text |-> arg.text, bedrock |-> bedrock]
    /\ ret' = detect_intent_with_bedrock(arg.text, bedrock)
    /\ UNCHANGED <<handlerVars, transcribeVars>>

\* Lines 218-233 on a classification with the drawn intent and entities.
ApplyTemplates ==
    /\ fn = "none"
    /\ arg.kind = "template"
    /\ fn' = "execute_workflow"
    /\ arg' = arg
    /\ ret' = BuildWorkflowItem(
                  Classification(arg.intent, arg.entities, 90, "General"),
                  TextHire, FALSE, Uuid4(1, 1))
    /\ UNCHANGED <<handlerVars, transcribeVars>>

NextPure ==
    \/ ApplyFallback
    \/ \E types \in EntityTypeLists : ApplyExtract(types)
    \/ \E b \in BedrockOutcomesPure : ApplyDetect(b)
    \/ ApplyTemplates

SpecPure == InitPure /\ [][NextPure]_vars

(***************************************************************************)
(* The transcribe Lambda (src/lambda/transcribe/index.py): one invocation, *)
(* stepping from one external call (S3, Transcribe) or sleep to the next.  *)
(*                                                                         *)
(* The function is deployed with a timeout (genassist_stack.py, line 200): *)
(* the runtime ends an invocation that has run that long, and nothing is   *)
(* returned.  Of the time an invocation takes only the sleeps are counted; *)
(* every other statement takes some time too, so an invocation that has    *)
(* slept `elapsed` seconds has run for longer than that, and one that has  *)
(* slept as long as the timeout has been ended.                            *)
(***************************************************************************)
\* max_attempts = 30
max_attempts == 30

\* time.sleep(2)
SleepSeconds == 2

\* timeout=Duration.seconds(60)
LambdaTimeoutSeconds == 60

\* audio_key, and the key of the transcript the job writes (OutputKey).
audio_key == "transcribe-input/audio.wav"

OutputKey == "transcribe-output/job.json"

job_name == "genassist-transcribe-job"

\* The bodies the handler may receive: one that is not JSON, one without
\* audioData, one whose audioData b64decode rejects, one with audio.
TranscribeEvents == {"malformed", "no_audio", "bad_base64", "audio"}

\* How a call to S3 or Transcribe ends: "ok", or it raises.
CallOutcomes == {"ok", "raises"}

ServiceFault == "An error occurred (ServiceUnavailable) when calling the operation"

\* What get_transcription_job may do: raise, or return a job in one of the
\* four statuses, a failed one with or without a FailureReason.
QueryResults ==
    {[kind |-> "raises"],
     [kind |-> "job", status |-> "QUEUED"],
     [kind |-> "job", status |-> "IN_PROGRESS"],
     [kind |-> "job", status |-> "COMPLETED"],
     [kind |-> "job", status |-> "FAILED", reason |-> <<"Unsupported media">>],
     [kind |-> "job", status |-> "FAILED", reason |-> <<>>]}

\* How get_transcript_from_s3 goes: the transcript is read and its file
\* deleted, or get_object raises, or the delete_object after the read raises.
TranscriptOutcomes == {"ok", "get_raises", "delete_raises"}

\* Lines 36-43.
AudioRequired ==
    [statusCode |-> 400,
     body |-> [success |-> FALSE, error |-> "Audio data is required"]]

\* Lines 49-56.
InvalidAudio(msg) ==
    [statusCode |-> 400,
     body |-> [success |-> FALSE, error |-> "Invalid audio data: " \o msg]]

\* Lines 96-104.
Transcribed(text) ==
    [statusCode |-> 200,
     body |-> [success |-> TRUE, transcript |-> text, jobName |-> job_name]]

\* Lines 107-115: response['TranscriptionJob'].get('FailureReason',
\* 'Unknown error').
TranscriptionFailed(reason) ==
    [statusCode |-> 500,
     body |-> [success |-> FALSE,
               error |-> "Transcription failed: "
                         \o (IF reason = <<>> THEN "Unknown error" ELSE reason[1])]]

\* Lines 122-129.
TranscriptionTimeout ==
    [statusCode |-> 408,
     body |-> [success |-> FALSE, error |-> "Transcription timeout"]]

\* Lines 131-140.
TranscribeError(msg) ==
    [statusCode |-> 500,
     body |-> [success |-> FALSE, error |-> "Internal server error: " \o msg]]

\* The invocation returns r.
TReturn(r) ==
    /\ t_response' = r
    /\ t_pc' = "done"

InitTranscribe ==
    /\ pc = [i \in Invocations |-> "idle"]
    /\ event = [i \in Invocations |-> EventMalformed]
    /\ intent_result = [i \in Invocations |-> JNull]
    /\ workflow_item = [i \in Invocations |-> JNull]
    /\ response = [i \in Invocations |-> NoResponse]
    /\ calls = [i \in Invocations |-> <<>>]
    /\ workflows_table = {}
    /\ workflow_history_table = {}
    /\ fn = "none"
    /\ arg = JNull
    /\ ret = JNull
    /\ TranscribeIdle

\* Lines 23-56: the body is parsed, audioData checked and decoded.
TReceive(ev) ==
    /\ t_pc = "idle"
    /\ IF ev = "malformed"
       THEN TReturn(TranscribeError("Expecting value: line 1 column 1 (char 0)"))
       ELSE IF ev = "no_audio" THEN TReturn(AudioRequired)
       ELSE IF ev = "bad_base64" THEN TReturn(InvalidAudio("Incorrect padding"))
       ELSE /\ t_pc' = "put_object"
            /\ t_response' = t_response
    /\ UNCHANGED <<attempt, queries, status, transcript_text, audio_bucket,
                   elapsed, handlerVars, pureVars>>

\* Lines 59-65: s3.put_object ends.
TPutObject(outcome) ==
    /\ t_pc = "put_object"
    /\ IF outcome = "ok"
       THEN /\ audio_bucket' = audio_bucket \cup {audio_key}
            /\ t_pc' = "start_job"
            /\ t_response' = t_response
       ELSE /\ TReturn(TranscribeError(ServiceFault))
            /\ audio_bucket' = audio_bucket
    /\ UNCHANGED <<attempt, queries, status, transcript_text, elapsed,
                   handlerVars, pureVars>>

\* Lines 68-84: transcribe.start_transcription_job ends; attempt = 0 and
\* the loop is entered (0 < max_attempts).
TStartJob(outcome) ==
    /\ t_pc = "start_job"
    /\ IF outcome = "ok"
       THEN /\ attempt' = 0
            /\ t_pc' = "poll"
            /\ t_response' = t_response
       ELSE /\ TReturn(TranscribeError(ServiceFault))
            /\ attempt' = attempt
    /\ UNCHANGED <<queries, status, transcript_text, audio_bucket, elapsed,
                   handlerVars, pureVars>>

\* Lines 85-115: transcribe.get_transcription_job ends.  A job reported
\* COMPLETED has its transcript in the bucket.
TPoll(result) ==
    /\ t_pc = "poll"
    /\ queries' = queries + 1
    /\ IF result.kind = "raises"
       THEN /\ TReturn(TranscribeError(ServiceFault))
            /\ UNCHANGED <<status, audio_bucket>>
       ELSE /\ status' = result.status
            /\ IF result.status = "COMPLETED"
               THEN /\ audio_bucket' = audio_bucket \cup {OutputKey}
                    /\ t_pc' = "get_transcript"
                    /\ t_response' = t_response
               ELSE IF result.status = "FAILED"
               THEN /\ TReturn(TranscriptionFailed(result.reason))
                    /\ audio_bucket' = audio_bucket
               ELSE /\ t_pc' = "sleep"
                    /\ t_response' = t_response
                    /\ audio_bucket' = audio_bucket
    /\ UNCHANGED <<attempt, transcript_text, elapsed, handlerVars, pureVars>>

\* Lines 90-91 and 142-166: get_transcript_from_s3 returns; any exception
\* inside it gives "".
TGetTranscript(outcome) ==
    /\ t_pc = "get_transcript"
    /\ t_pc' = "delete_audio"
    /\ transcript_text' = IF outcome = "ok" THEN "hire John Smith" ELSE ""
    /\ audio_bucket' = IF outcome = "ok" THEN audio_bucket \ {OutputKey}
                       ELSE audio_bucket
    /\ UNCHANGED <<attempt, queries, status, elapsed, t_response,
                   handlerVars, pureVars>>

\* Lines 94-104: s3.delete_object on the input audio ends.
TDeleteAudio(outcome) ==
    /\ t_pc = "delete_audio"
    /\ IF outcome = "ok"
       THEN /\ audio_bucket' = audio_bucket \ {audio_key}
            /\ TReturn(Transcribed(transcript_text))
       ELSE /\ audio_bucket' = audio_bucket
            /\ TReturn(TranscribeError(ServiceFault))
    /\ UNCHANGED <<attempt, queries, status, transcript_text, elapsed,
                   handlerVars, pureVars>>

\* Lines 117-129: time.sleep(2) ends, unless the function's timeout ends
\* the invocation first; then attempt += 1 and the loop condition: another
\* query, or the timeout response.
TSleep ==
    /\ t_pc = "sleep"
    /\ elapsed' = elapsed + SleepSeconds
    /\ IF elapsed + SleepSeconds >= LambdaTimeoutSeconds
       THEN /\ t_pc' = "killed"
            /\ UNCHANGED <<attempt, t_response>>
       ELSE /\ attempt' = attempt + 1
            /\ IF attempt + 1 < max_attempts
               THEN /\ t_pc' = "poll"
                    /\ t_response' = t_response
               ELSE TReturn(TranscriptionTimeout)
    /\ UNCHANGED <<queries, status, transcript_text, audio_bucket,
                   handlerVars, pureVars>>

NextTranscribe ==
    \/ \E ev \in TranscribeEvents : TReceive(ev)
    \/ \E o \in CallOutcomes : TPutObject(o)
    \/ \E o \in CallOutcomes : TStartJob(o)
    \/ \E r \in QueryResults : TPoll(r)
    \/ \E o \in TranscriptOutcomes : TGetTranscript(o)
    \/ \E o \in CallOutcomes : TDeleteAudio(o)
    \/ TSleep

SpecTranscribe == InitTranscribe /\ [][NextTranscribe]_vars

(***************************************************************************)
(* Properties.                                                             *)
(***************************************************************************)
\* C1 (SpecPure): whenever the call to the model raised, whatever the text,
\* detect_intent_with_bedrock returns (it does not raise) exactly what
\* fallback_intent_detection returns on the same text.
C1_FallbackOnModelFailure ==
    (fn = "detect_intent_with_bedrock" /\ arg.bedrock.kind = "raises")
        => /\ ret.ok
           /\ ret.value = fallback_intent_detection(arg.text)

\* The call raised on "reimburse my ticket issue" and the keyword result came
\* back.
C1_Witness ==
    /\ fn = "detect_intent_with_bedrock"
    /\ arg.bedrock = BedrockRaises
    /\ arg.text = TextReimburse
    /\ ret.ok
    /\ ret.value.fields.intent = "IT_Ticket"

\* The generated text is a JSON object.
IsJsonObject(doc) == doc.json /\ doc.value.type = "object"

\* C2 (SpecPure), as claimed: whenever the model call succeeds and the
\* generated text is not a JSON object (it is no JSON at all, or JSON of
\* another type), detect_intent_with_bedrock returns what
\* fallback_intent_detection returns on the text.
C2_FallbackOnUnexpectedOutput ==
    (/\ fn = "detect_intent_with_bedrock"
     /\ arg.bedrock.kind = "generated"
     /\ ~IsJsonObject(arg.bedrock.doc))
        => /\ ret.ok
           /\ ret.value = fallback_intent_detection(arg.text)

\* The four intents with a template of their own.
BespokeIntents ==
    {"HR_Onboarding", "IT_Ticket", "Finance_Expense", "Meeting_Schedule"}

\* The intent the keyword sets give a lower-cased text when they are tested
\* in the order onboarding, ticket, expense, meeting.
IntentByPriority(text_lower) ==
    IF AnyIn(OnboardingWords, text_lower) THEN "HR_Onboarding"
    ELSE IF AnyIn(TicketWords, text_lower) THEN "IT_Ticket"
    ELSE IF AnyIn(ExpenseWords, text_lower) THEN "Finance_Expense"
    ELSE IF AnyIn(MeetingWords, text_lower) THEN "Meeting_Schedule"
    ELSE "General_Query"

\* C8 (SpecPure): fallback_intent_detection gives every text the intent of
\* the earliest keyword set, in the order onboarding, ticket, expense,
\* meeting, with a substring hit in the lower-cased text, General_Query when
\* no set has one; "reimburse my ticket issue" gets IT_Ticket.
C8_KeywordPriority ==
    fn = "fallback_intent_detection"
        => /\ ret.fields.intent = IntentByPriority(lower(arg.text))
           /\ arg.text = TextReimburse => ret.fields.intent = "IT_Ticket"

\* "reimburse my ticket issue" hits the ticket set and the expense set, and
\* was classified.
C8_Witness ==
    /\ fn = "fallback_intent_detection"
    /\ arg.text = TextReimburse
    /\ AnyIn(TicketWords, lower(arg.text))
    /\ AnyIn(ExpenseWords, lower(arg.text))
    /\ ret.fields.intent = "IT_Ticket"

\* C9 (SpecPure): for every intent outside the four bespoke ones the built
\* workflow has title "Workflow - <intent>", description "Processing
\* workflow request." and exactly the steps Process request, Complete
\* workflow, both pending, in that order.
C9_GenericTemplate ==
    (fn = "execute_workflow" /\ arg.intent \notin BespokeIntents)
        => /\ ret.ok
           /\ ret.value.title = "Workflow - " \o arg.intent
           /\ ret.value.description = "Processing workflow request."
           /\ ret.value.steps =
                  <<[name |-> "Process request", status |-> "pending"],
                    [name |-> "Complete workflow", status |-> "pending"]>>

\* The workflow of an intent of the prompt's list that has no template.
C9_Witness ==
    /\ fn = "execute_workflow"
    /\ arg.intent = "IT_Password_Reset"
    /\ ret.ok
    /\ ret.value.title = "Workflow - IT_Password_Reset"
    /\ Len(ret.value.steps) = 2

\* s[k..k+n-1] reads [A-Z][a-z]+ [A-Z][a-z]+ : a capital, a lower-case
\* letters, a space, a capital, and lower-case letters to the end.
IsCapitalizedPair(s, k, n) ==
    \E a \in 1..(n - 4) :
        /\ k + n - 1 <= Len(s)
        /\ s[k] \in UpperSet
        /\ \A j \in (k + 1)..(k + a) : s[j] \in LowerSet
        /\ s[k + a + 1] = " "
        /\ s[k + a + 2] \in UpperSet
        /\ \A j \in (k + a + 3)..(k + n - 1) : s[j] \in LowerSet

\* The first occurrence of two consecutive capitalized words in s starts at
\* k and is n long: no occurrence starts before k, none at k is longer.
IsFirstCapitalizedPair(s, k, n) ==
    /\ IsCapitalizedPair(s, k, n)
    /\ \A j \in 1..(k - 1), m \in 1..Len(s) : ~IsCapitalizedPair(s, j, m)
    /\ \A m \in (n + 1)..Len(s) : ~IsCapitalizedPair(s, k, m)

\* C10 (SpecPure), as claimed: extract("Pay John Smith $250.00 for travel",
\* [employee_name, amount]) is {employee_name: "John Smith", amount: "$250.00"}.
C10_ExtractExample ==
    (/\ fn = "extract_entities"
     /\ arg.text = TextPay
     /\ arg.entity_types = <<"employee_name", "amount">>)
        => ret = JObject([employee_name |-> "John Smith", amount |-> "$250.00"])

\* C10 (SpecPure), amended: that call returns {employee_name: "Pay John",
\* amount: "$250.00"}; and for every text, employee_name is present exactly
\* when the text holds two consecutive capitalized words, and is then their
\* first occurrence.
C10_ExtractFirstPair ==
    (fn = "extract_entities" /\ "employee_name" \in Range(arg.entity_types))
        => /\ (arg.text = TextPay /\ arg.entity_types = <<"employee_name", "amount">>)
                  => ret = JObject([employee_name |-> "Pay John",
                                    amount |-> "$250.00"])
           /\ "employee_name" \in DOMAIN ret.fields
                  <=> \E k, n \in 1..Len(arg.text) :
                          IsCapitalizedPair(arg.text, k, n)
           /\ "employee_name" \in DOMAIN ret.fields
                  => \E k, n \in 1..Len(arg.text) :
                         /\ IsFirstCapitalizedPair(arg.text, k, n)
                         /\ ret.fields.employee_name =
                                Str(SubSeq(arg.text, k, k + n - 1))

\* The call of the example was made and found "Pay John".
C10_Witness ==
    /\ fn = "extract_entities"
    /\ arg.text = TextPay
    /\ arg.entity_types = <<"employee_name", "amount">>
    /\ ret.fields.employee_name = "Pay John"
    /\ ret.fields.amount = "$250.00"

\* The keys of a classification result.
ClassificationKeys == {"intent", "entities", "confidence", "domain"}

\* A dict that lacks a key of a classification result.
MissesField(v) == v.type = "object" /\ ~(ClassificationKeys \subseteq DOMAIN v.fields)

\* The put_item calls of invocation i on a table, and those that failed.
PutsOn(i, table) ==
    {k \in DOMAIN calls[i] :
        calls[i][k].op = "put_item" /\ calls[i][k].table = table}

FailedPuts(i) ==
    {k \in DOMAIN calls[i] :
        calls[i][k].op = "put_item" /\ calls[i][k].outcome # "ok"}

\* C3 (Spec), as claimed: an invocation whose classification result is an
\* object missing a field, and none of whose store writes failed, ends with
\* the success outcome and its workflow in the store.
C3_MissingFieldTolerated ==
    \A i \in Invocations :
        (/\ pc[i] = "done"
         /\ MissesField(intent_result[i])
         /\ FailedPuts(i) = {})
            => /\ response[i].statusCode = 200
               /\ \E w \in workflows_table : w.id = response[i].body.workflowId

\* C4 (Spec): an invocation received with an empty or missing text is
\* finished at once with the bad-request outcome (400, success false,
\* "Text input is required"); it made no external call (no model
\* invocation, no put_item) and neither table holds an item of it.
C4_ValidationGate ==
    \A i \in Invocations :
        (pc[i] # "idle" /\ event[i].parses /\ TextOf(event[i]) = <<>>)
            => /\ pc[i] = "done"
               /\ response[i] =
                      [statusCode |-> 400,
                       body |-> [success |-> FALSE,
                                 error |-> "Text input is required"]]
               /\ calls[i] = <<>>
               /\ workflow_item[i] = JNull
               /\ \A w \in workflows_table : w.id # Uuid4(i, 1)
               /\ \A h \in workflow_history_table : h.id # Uuid4(i, 2)

\* One invocation was rejected for a missing text, another for an empty one,
\* and the tables are empty.
C4_Witness ==
    /\ \E i, j \in Invocations :
          /\ pc[i] = "done" /\ event[i] = EventOf(EmptyDict)
          /\ pc[j] = "done" /\ event[j] = EventOf([text |-> <<>>])
          /\ response[i].statusCode = 400
          /\ response[j].statusCode = 400
    /\ workflows_table = {}
    /\ workflow_history_table = {}

\* No invocation is between two steps.
Quiescent == \A i \in Invocations : pc[i] \in {"idle", "done"}

\* The "workflow_started" history entries that reference workflow w.
StartedEntries(w) ==
    {h \in workflow_history_table :
        h.workflowId = w.id /\ h.action = "workflow_started"}

\* C5 (Spec), as claimed: whenever every invocation has returned, also one
\* in which a store write failed, every workflow in the store has exactly
\* one "workflow_started" history entry referencing it.
C5_ExactlyOneStartedEntry ==
    Quiescent
        => \A w \in workflows_table : Cardinality(StartedEntries(w)) = 1

\* C5 (Spec), amended: every workflow in the store has at most one
\* "workflow_started" history entry referencing it, and once the invocation
\* that wrote it has returned it has exactly one if that invocation returned
\* success and none if it returned an error (its history write failed; the
\* workflow write is not undone).
C5_AtMostOneStartedEntry ==
    \A w \in workflows_table :
        /\ Cardinality(StartedEntries(w)) <= 1
        /\ \A i \in Invocations :
              (pc[i] = "done" /\ workflow_item[i] = w)
                  => /\ response[i].statusCode \in {200, 500}
                     /\ response[i].statusCode = 200
                            <=> Cardinality(StartedEntries(w)) = 1
                     /\ response[i].statusCode = 500
                            <=> FailedPuts(i) = PutsOn(i, "history")

\* Every invocation has returned; one workflow has its history entry, and
\* another, whose history write failed, has none.
C5_Witness ==
    /\ Quiescent
    /\ \E w1, w2 \in workflows_table :
          /\ Cardinality(StartedEntries(w1)) = 1
          /\ Cardinality(StartedEntries(w2)) = 0

\* C6 (Spec): an invocation whose execute_workflow returned (the handler
\* answered 200) made exactly one put_item on each table; the store holds
\* exactly one workflow with the returned id, which is the item it built,
\* and exactly one history entry whose workflowId is that id, and this
\* entry's own id is another identifier.
C6_LinkedWrite ==
    \A i \in Invocations :
        response[i].statusCode = 200
            => LET wid == response[i].body.message.workflowId
                   ws == {w \in workflows_table : w.id = wid}
                   hs == {h \in workflow_history_table : h.workflowId = wid}
               IN  /\ Cardinality(PutsOn(i, "workflows")) = 1
                   /\ Cardinality(PutsOn(i, "history")) = 1
                   /\ FailedPuts(i) = {}
                   /\ ws = {workflow_item[i]}
                   /\ Cardinality(hs) = 1
                   /\ \A h \in hs : h.id # wid /\ h.action = "workflow_started"

\* Two invocations returned success and the store holds both workflows.
C6_Witness ==
    /\ \A i \in Invocations : response[i].statusCode = 200
    /\ Cardinality(workflows_table) = MaxInvocations
    /\ Cardinality(workflow_history_table) = MaxInvocations

\* C7 (Spec): an invocation one of whose put_item calls failed has returned
\* the internal-error outcome (500, success false, "Internal server error: "
\* followed by the store's message); the failed call is the last external
\* call it made, and it called put_item at most once on each table.
C7_StoreFailureSurfaced ==
    \A i \in Invocations :
        FailedPuts(i) # {}
            => /\ pc[i] = "done"
               /\ response[i] =
                      [statusCode |-> 500,
                       body |-> [success |-> FALSE,
                                 error |-> "Internal server error: " \o StoreFault]]
               /\ FailedPuts(i) = {Len(calls[i])}
               /\ Cardinality(PutsOn(i, "workflows")) <= 1
               /\ Cardinality(PutsOn(i, "history")) <= 1

\* One invocation failed on the workflows table and wrote nothing, another
\* failed on the history table after its workflow was written.
C7_Witness ==
    \E i, j \in Invocations :
        /\ FailedPuts(i) = PutsOn(i, "workflows") /\ FailedPuts(i) # {}
        /\ FailedPuts(j) = PutsOn(j, "history") /\ FailedPuts(j) # {}
        /\ response[i].statusCode = 500
        /\ response[j].statusCode = 500
        /\ workflow_item[i] \notin workflows_table
        /\ workflow_item[j] \in workflows_table

\* The intents of the fallback branches none of whose requested entity types
\* has a heuristic, and of the final return.
IntentsWithoutHeuristic == {"IT_Ticket", "Meeting_Schedule", "General_Query"}

\* C11 (SpecPure): every result of fallback_intent_detection has an
\* `entities` key whose value is a dict (not null), and for the intents
\* IT_Ticket, Meeting_Schedule and General_Query that dict is empty,
\* whatever the text holds.
C11_EntitiesPresent ==
    fn = "fallback_intent_detection"
        => /\ "entities" \in DOMAIN ret.fields
           /\ ret.fields.entities.type = "object"
           /\ ret.fields.intent \in IntentsWithoutHeuristic
                  => DOMAIN ret.fields.entities.fields = {}

\* "ticket $250.00" holds an amount, was classified IT_Ticket, and its
\* entities are the empty dict.
C11_Witness ==
    /\ fn = "fallback_intent_detection"
    /\ arg.text = Join(<<W_ticket, W_amount250>>)
    /\ FirstAmount(arg.text) # <<>>
    /\ ret.fields.intent = "IT_Ticket"
    /\ ret.fields.entities = JObject(EmptyDict)

\* Invocation i's put_item on the workflows table succeeded.
WroteWorkflow(i) ==
    \E k \in PutsOn(i, "workflows") : calls[i][k].outcome = "ok"

\* C12 (Spec): two invocations that both returned success, also on the same
\* text with the same classification, returned two different workflow ids,
\* and the store holds two different workflows under these ids; and the
\* workflow an invocation wrote stays in the store as it wrote it, whatever
\* the other invocations write.
C12_DistinctWorkflows ==
    /\ \A i \in Invocations :
          WroteWorkflow(i) => workflow_item[i] \in workflows_table
    /\ \A i, j \in Invocations :
          (/\ i # j
           /\ response[i].statusCode = 200
           /\ response[j].statusCode = 200)
              => /\ response[i].body.workflowId # response[j].body.workflowId
                 /\ \E wi, wj \in workflows_table :
                       /\ wi # wj
                       /\ wi.id = response[i].body.workflowId
                       /\ wj.id = response[j].body.workflowId

\* Two invocations received the same text, got the same classification and
\* both returned success.
C12_Witness ==
    \E i, j \in Invocations :
        /\ i # j
        /\ event[i] = event[j]
        /\ intent_result[i] = intent_result[j]
        /\ response[i].statusCode = 200
        /\ response[j].statusCode = 200
        /\ Cardinality(workflows_table) = 2

\* C13 (SpecPure), as claimed: every result detect_intent_with_bedrock
\* returns, from the model or from the fallback, is a dict with an `intent`
\* key.
C13_IntentAlwaysSet ==
    fn = "detect_intent_with_bedrock"
        => /\ ret.ok
           /\ ret.value.type = "object"
           /\ "intent" \in DOMAIN ret.value.fields

\* C14 (Spec): every workflow in the store, and every workflow item an
\* invocation has built, has status "in_progress", progress 0, userId
\* "default-user" and a non-empty list of steps, each of them "pending".
C14_CreatedInProgress ==
    \A w \in workflows_table \cup
               {workflow_item[i] : i \in {j \in Invocations : workflow_item[j] # JNull}} :
        /\ w.status = "in_progress"
        /\ w.progress = 0
        /\ w.userId = "default-user"
        /\ Len(w.steps) >= 1
        /\ \A k \in 1..Len(w.steps) : w.steps[k].status = "pending"

\* The store holds a workflow of an intent with a template of its own and
\* one of an intent without.
C14_Witness ==
    \E w1, w2 \in workflows_table :
        /\ w1.intent = "HR_Onboarding" /\ Len(w1.steps) = 5
        /\ w2.intent = "HR_Offboarding" /\ Len(w2.steps) = 2

\* Two classification results with the same keys and, but for `confidence`,
\* the same values.
SameButConfidence(a, b) ==
    /\ a.type = "object"
    /\ b.type = "object"
    /\ DOMAIN a.fields = DOMAIN b.fields
    /\ \A k \in DOMAIN a.fields \ {"confidence"} : a.fields[k] = b.fields[k]

\* The store answered the calls of i and of j alike, as far as both made them.
SameStoreOutcomes(i, j) ==
    \A k \in DOMAIN calls[i] \cap DOMAIN calls[j] : calls[i][k] = calls[j][k]

\* The messages of the history entries of invocation i's workflow.
HistoryMessages(i) ==
    IF workflow_item[i] = JNull THEN {}
    ELSE {h.message : h \in {e \in workflow_history_table :
                                 e.workflowId = workflow_item[i].id}}

\* C15 (Spec): two invocations that have returned, whose classification
\* results differ at most in `confidence` and whose store calls were
\* answered alike, made the same external calls, returned the same status
\* code, and either built no workflow or built workflows with the same
\* title, description, steps and status and the same history message.
C15_ConfidenceAdvisory ==
    \A i, j \in Invocations :
        (/\ pc[i] = "done"
         /\ pc[j] = "done"
         /\ SameButConfidence(intent_result[i], intent_result[j])
         /\ SameStoreOutcomes(i, j))
            => /\ calls[i] = calls[j]
               /\ response[i].statusCode = response[j].statusCode
               /\ (workflow_item[i] = JNull) <=> (workflow_item[j] = JNull)
               /\ workflow_item[i] # JNull
                      => /\ workflow_item[i].title = workflow_item[j].title
                         /\ workflow_item[i].description = workflow_item[j].description
                         /\ workflow_item[i].steps = workflow_item[j].steps
                         /\ workflow_item[i].status = workflow_item[j].status
               /\ HistoryMessages(i) = HistoryMessages(j)

\* One invocation was classified with confidence 0.95 and another, alike
\* but for that, with 0.6; both returned success.
C15_Witness ==
    \E i, j \in Invocations :
        /\ response[i].statusCode = 200
        /\ response[j].statusCode = 200
        /\ SameButConfidence(intent_result[i], intent_result[j])
        /\ intent_result[i].fields.confidence = 95
        /\ intent_result[j].fields.confidence = 60
        /\ HistoryMessages(i) = {"Workflow initiated: IT Support Ticket - VPN"}

\* C16 (Spec): in a success response the top-level workflowId equals
\* message.workflowId and is the id of the workflow item this invocation
\* built and put, which is in the store; and the response's intent is the
\* classification result the item's intent, entities and domain were taken
\* from.
C16_ResponseMatchesRecord ==
    \A i \in Invocations :
        response[i].statusCode = 200
            => /\ response[i].body.success
               /\ response[i].body.workflowId = response[i].body.message.workflowId
               /\ response[i].body.workflowId = workflow_item[i].id
               /\ WroteWorkflow(i)
               /\ workflow_item[i] \in workflows_table
               /\ response[i].body.intent = intent_result[i]
               /\ workflow_item[i].intent = response[i].body.intent.fields.intent
               /\ workflow_item[i].entities = response[i].body.intent.fields.entities
               /\ workflow_item[i].domain = response[i].body.intent.fields.domain

\* "hire John Smith" was classified by the fallback and answered with
\* success and the id of its stored workflow.
C16_Witness ==
    \E i \in Invocations, w \in workflows_table :
        /\ response[i].statusCode = 200
        /\ TextOf(event[i]) = TextHire
        /\ response[i].body.intent.fields.intent = "HR_Onboarding"
        /\ response[i].body.workflowId = w.id
        /\ w.title = "Employee Onboarding - John Smith"

\* The shape of the three outcomes of handler.
IsOutcome(r) ==
    \/ r.statusCode = 200 /\ r.body.success
    \/ r.statusCode = 400 /\ ~r.body.success
    \/ r.statusCode = 500 /\ ~r.body.success

\* C17 (Spec): an invocation has ended exactly when it has returned a
\* response, which is one of success (200), bad request (400) and internal
\* error (500), also when the body was not JSON, the classification result
\* was unusable or a store write failed; and a response, once returned, is
\* never replaced by another.
C17_AlwaysAnOutcome ==
    /\ [](\A i \in Invocations :
              /\ pc[i] = "done" <=> response[i] # NoResponse
              /\ pc[i] = "done" => IsOutcome(response[i]))
    /\ [][\A i \in Invocations :
              response[i] # NoResponse => response'[i] = response[i]]_vars

\* One invocation ended on a body that is not JSON, another on a
\* classification result that is a number; both with the internal-error
\* outcome.
C17_Witness ==
    \E i, j \in Invocations :
        /\ pc[i] = "done" /\ ~event[i].parses
        /\ response[i].statusCode = 500
        /\ pc[j] = "done" /\ intent_result[j] = JNumber(42)
        /\ response[j].statusCode = 500

\* The history entries that reference the workflow of invocation i.
HistoryOf(i) ==
    {h \in workflow_history_table : h.workflowId = workflow_item[i].id}

\* C18 (Spec): at every point of every interleaving of the invocations, an
\* invocation that stands before a store write can take that step whatever
\* the others have done, and the workflow an invocation has written is in
\* the store as written; and when two invocations have both
\* returned success, the store holds their two workflows under two ids and,
\* for them, exactly two history entries, one referencing each.
C18_IndependentInvocations ==
    /\ \A i \in Invocations :
          /\ pc[i] = "put_workflow" => ENABLED PutWorkflow(i, "ok")
          /\ pc[i] = "put_history" => ENABLED PutHistory(i, "ok")
          /\ WroteWorkflow(i) => workflow_item[i] \in workflows_table
    /\ \A i, j \in Invocations :
          (/\ i # j
           /\ response[i].statusCode = 200
           /\ response[j].statusCode = 200)
              => /\ workflow_item[i].id # workflow_item[j].id
                 /\ {w \in workflows_table :
                         w.id \in {workflow_item[i].id, workflow_item[j].id}}
                        = {workflow_item[i], workflow_item[j]}
                 /\ Cardinality(HistoryOf(i)) = 1
                 /\ Cardinality(HistoryOf(j)) = 1
                 /\ HistoryOf(i) \cap HistoryOf(j) = {}
                 /\ \A h \in HistoryOf(i), g \in HistoryOf(j) : h.id # g.id

\* Two invocations on different texts have both returned success; the store
\* holds their two workflows and two history entries.
C18_Witness ==
    \E i, j \in Invocations :
        /\ response[i].statusCode = 200
        /\ response[j].statusCode = 200
        /\ TextOf(event[i]) = TextReimburse
        /\ TextOf(event[j]) = TextHire
        /\ {workflow_item[i], workflow_item[j]} \subseteq workflows_table
        /\ Cardinality(HistoryOf(i) \cup HistoryOf(j)) = 2

\* The value of key in the entities e, or default when e has no such key.
EntityOr(e, key, default) ==
    IF key \in DOMAIN e.fields THEN e.fields[key] ELSE default

\* The title and the description the table of substitutions gives a bespoke
\* intent: the entity each uses and the default that stands in for it.
ExpectedTitle(intent, e) ==
    CASE intent = "HR_Onboarding" ->
             "Employee Onboarding - " \o EntityOr(e, "employee_name", "New Employee")
      [] intent = "IT_Ticket" ->
             "IT Support Ticket - " \o EntityOr(e, "issue_type", "Technical Issue")
      [] intent = "Finance_Expense" ->
             "Expense Report - " \o EntityOr(e, "description", "Business Expense")
      [] intent = "Meeting_Schedule" ->
             "Schedule Meeting - " \o EntityOr(e, "subject", "Meeting")

ExpectedDescription(intent, e) ==
    CASE intent = "HR_Onboarding" ->
             "Setting up accounts, scheduling orientation, and preparing workspace for "
                 \o EntityOr(e, "role", "new role") \o "."
      [] intent = "IT_Ticket" ->
             "Investigating and resolving "
                 \o EntityOr(e, "description", "technical issue") \o "."
      [] intent = "Finance_Expense" ->
             "Processing expense report for "
                 \o EntityOr(e, "amount", "business expense") \o "."
      [] intent = "Meeting_Schedule" ->
             "Scheduling meeting and sending calendar invites."

\* C19 (SpecPure): for each of the four bespoke intents and every entities
\* mapping, the workflow's title and description hold the listed entity's
\* value when the mapping has it and the listed default when it has not:
\* employee_name / "New Employee" and role / "new role" for HR_Onboarding,
\* issue_type / "Technical Issue" and description / "technical issue" for
\* IT_Ticket, description / "Business Expense" and amount / "business
\* expense" for Finance_Expense, subject / "Meeting" and a fixed description
\* for Meeting_Schedule.
C19_TemplateSubstitution ==
    (/\ fn = "execute_workflow"
     /\ arg.intent \in BespokeIntents
     /\ arg.entities.type = "object")
        => /\ ret.ok
           /\ ret.value.title = ExpectedTitle(arg.intent, arg.entities)
           /\ ret.value.description = ExpectedDescription(arg.intent, arg.entities)

\* An expense with a description and an amount: the title took the
\* description, the description took the amount.
C19_Witness ==
    /\ fn = "execute_workflow"
    /\ arg.intent = "Finance_Expense"
    /\ arg.entities = JObject([description |-> "Taxi", amount |-> "$12.50"])
    /\ ret.ok
    /\ ret.value.title = "Expense Report - Taxi"
    /\ ret.value.description = "Processing expense report for $12.50."

\* The external calls of invocation i are in the order of the code: first
\* the model, then, once a classification result is there, the put on the
\* workflows table, then, if that put succeeded, the put on the history
\* table; and nothing after.
CallsInOrder(i) ==
    /\ Len(calls[i]) <= 3
    /\ Len(calls[i]) >= 1 => calls[i][1].op = "invoke_model"
    /\ Len(calls[i]) >= 2
           => /\ calls[i][2].op = "put_item"
              /\ calls[i][2].table = "workflows"
              /\ intent_result[i] # JNull
    /\ Len(calls[i]) >= 3
           => /\ calls[i][2].outcome = "ok"
              /\ calls[i][3].op = "put_item"
              /\ calls[i][3].table = "history"

\* C20 (Spec): an invocation calls the model at most once, puts on the
\* workflows table only after the classification has returned, puts on the
\* history table only after the put on the workflows table succeeded, and
\* puts at most once on each table; and every step makes exactly one
\* external call or none, after those it has made.
C20_SequentialSteps ==
    /\ [](\A i \in Invocations : CallsInOrder(i))
    /\ [][\A i \in Invocations :
              \/ calls'[i] = calls[i]
              \/ /\ Len(calls'[i]) = Len(calls[i]) + 1
                 /\ SubSeq(calls'[i], 1, Len(calls[i])) = calls[i]]_vars

\* An invocation made its three calls, in order, and returned success.
C20_Witness ==
    \E i \in Invocations :
        /\ calls[i] = <<[op |-> "invoke_model"],
                        PutCall("workflows", "ok"),
                        PutCall("history", "ok")>>
        /\ response[i].statusCode = 200

\* C21 (Spec): no step of any invocation, whether it goes on to succeed, is
\* rejected or fails, takes an item out of either table or changes a field
\* of one: every workflow and every history entry in the store before the
\* step is in the store, unchanged, after it.
C21_AppendOnly ==
    [][/\ workflows_table \subseteq workflows_table'
       /\ workflow_history_table \subseteq workflow_history_table']_vars

\* One invocation returned success, another was rejected or failed, and the
\* workflow and the history entry of the first are in the store.
C21_Witness ==
    \E i, j \in Invocations :
        /\ response[i].statusCode = 200
        /\ response[j].statusCode \in {400, 500}
        /\ workflow_item[i] \in workflows_table
        /\ Cardinality(HistoryOf(i)) = 1

\* C22 (Spec): in every reachable state, also after a put_item has failed,
\* every history entry in the store has a workflowId that is the id of a
\* workflow in the store.
C22_HistoryReferencesWorkflow ==
    \A h \in workflow_history_table :
        \E w \in workflows_table : w.id = h.workflowId

\* An invocation's history put failed and left its workflow in the store
\* without an entry, while the entry of another invocation references that
\* one's stored workflow.
C22_Witness ==
    \E i, j \in Invocations :
        /\ response[i].statusCode = 200
        /\ HistoryOf(i) # {}
        /\ FailedPuts(j) # {}
        /\ FailedPuts(j) = PutsOn(j, "history")
        /\ workflow_item[j] \in workflows_table
        /\ HistoryOf(j) = {}

\* The transcribe invocation has ended: it returned, or the runtime ended it.
TEnded == t_pc \in {"done", "killed"}

\* C23 (SpecTranscribe), as claimed: the handler makes at most 30 status
\* queries; when it has ended after a query returned COMPLETED it has
\* returned 200, after one returned FAILED 500; when 30 queries have been
\* made and none returned COMPLETED or FAILED (nor raised) it goes on to
\* end, and has then returned 408 "Transcription timeout"; and the input
\* audio object, once uploaded, stays in the bucket as long as no query has
\* returned COMPLETED, and is gone when 200 is returned.
C23_PollingLoop ==
    /\ queries <= max_attempts
    /\ (TEnded /\ status = "COMPLETED") => t_response.statusCode = 200
    /\ (TEnded /\ status = "FAILED") => t_response.statusCode = 500
    /\ (/\ queries = max_attempts
        /\ status \in {"QUEUED", "IN_PROGRESS"}
        /\ t_response # TranscribeError(ServiceFault))
           => /\ t_pc \in {"sleep", "done"}
              /\ t_pc = "done" => t_response = TranscriptionTimeout
    /\ (\/ status \in {"QUEUED", "IN_PROGRESS", "FAILED"}
        \/ t_pc \in {"start_job", "poll", "sleep", "killed"})
           => audio_key \in audio_bucket
    /\ t_response.statusCode = 200 => audio_key \notin audio_bucket

====
